---- MODULE Spec2Model ----
(***************************************************************************)
(* gh-wizard: the Pomodoro timer (PomodoroSession) and its break advisor   *)
(* (BreakReminder), src/src/gh_wizard/pomodoro.py; the usage statistics     *)
(* (StatsManager), src/src/gh_wizard/stats.py; the timer's driver loops,    *)
(* src/src/gh_wizard/cli.py; the hyperfocus sessions (SessionManager),      *)
(* src/src/gh_wizard/session.py; and the Eisenhower matrix,                 *)
(* src/src/gh_wizard/priorities.py.  Each component has its own variables   *)
(* and its own specification; a component's actions say nothing about the  *)
(* variables of the others, the specifications hold those unchanged.       *)
(*                                                                         *)
(* Time is counted in ticks, TicksPerSecond ticks to the second, so that   *)
(* the truncation int(...) of get_elapsed_seconds is visible.  `now` is    *)
(* the value datetime.now() returns; every method reads it when called.    *)
(*                                                                         *)
(* pause_offset is a Python float, and get_elapsed_seconds computes        *)
(* (now - start_time).total_seconds() - pause_offset in binary floating    *)
(* point before int() truncates it.  When the exact difference is a whole  *)
(* number k >= 1 of seconds and pause_offset is not exactly representable  *)
(* (0 always is), the computed value can be k - epsilon, which int() turns *)
(* into k - 1.  offset_rounds_down records whether the current             *)
(* pause_offset rounds that way; resume() chooses it when it adds a        *)
(* non-zero duration, because it depends on digits below a tick.           *)
(***************************************************************************)
EXTENDS Integers, Sequences, FiniteSets, TLC

\* ---------------------------------------------------------------- bounds
TicksPerSecond == 2
MaxSubTicks == 2
MaxMinutes == 2
MaxHours == 1
MaxAdvances == 7
MaxSessionsUntilLongBreak == 4
MaxSessionCount == 20
MaxDays == 2
MaxRecords == 4
MaxFocusMinutes == 2
MaxSessionOps == 4
MaxAdds == 2
MaxReminderCount == 1
MaxReminderAdvances == 1

\* ------------------------------------------------------- program constants
SecondsPerMinute == 60
IdleThreshold == 3600

\* datetime fields that are None
None == -1
\* no progress read yet
NoProgress == <<-1, 1>>

WorkMinutesSet == {0, 1}
ShortBreakMinutesSet == {1}
LongBreakMinutesSet == {2}
SessionsUntilLongBreakSet == {1, 2, MaxSessionsUntilLongBreak}

TicksPerMinute == SecondsPerMinute * TicksPerSecond
TicksPerHour == 60 * TicksPerMinute

VARIABLES
    now,                        \* the clock, in ticks
    work_minutes, short_break_minutes, long_break_minutes,
    sessions_until_long_break,
    completed_sessions, is_running, is_paused, current_phase,
    total_time,                 \* seconds
    start_time, paused_time,    \* ticks, or None
    pause_offset,               \* ticks
    offset_rounds_down,         \* the float pause_offset makes a whole elapsed second fall short
    phase_log,                  \* phases entered by next_phase, in order
    last_progress,              \* last progress read while running and unpaused since start_time was stamped
    session_count,              \* argument of the last get_break_suggestion call, or None
    suggestion,                 \* text that call returned
    break_due,                  \* <<result>> of the last should_take_break call, or <<>>
    reminder_minutes,           \* <<minutes>> in the message of the last reminder, or <<>>
    today,                      \* date.today(), as a day number
    stats,                      \* StatsManager.stats: day -> DailyStats
    stats_file,                 \* content of the stats file: day -> dumped DailyStats
    focus_log,                  \* <<day, minutes>> of every record_work_session call, in order
    driver_cmd,                 \* the command that runs the loop: "start" or "work-on"
    driver_pc,                  \* where the command is: "new", "keys", "check", "sleep", "done"
    session_files,              \* sessions/<id>.json: id -> session record
    current_session,            \* session_id in current_session.json, or NoSession
    session_log,                \* <<operation, id>> of every SessionManager call that returned, in order
    tasks,                      \* EisenhowerMatrix.tasks: id -> Task
    quadrants,                  \* EisenhowerMatrix.quadrants: quadrant -> list of ids
    matrix_file,                \* the "tasks" object of the matrix file, or NoFile
    tasks_at_save,              \* tasks when save last wrote the file
    new_tasks, new_quadrants    \* the matrix that loaded the file last, or NotLoaded

timer_vars == <<now, work_minutes, short_break_minutes, long_break_minutes,
                sessions_until_long_break, completed_sessions, is_running,
                is_paused, current_phase, total_time, start_time, paused_time,
                pause_offset, offset_rounds_down, phase_log, last_progress>>

stats_vars == <<today, stats, stats_file, focus_log>>

config == <<work_minutes, short_break_minutes, long_break_minutes,
            sessions_until_long_break>>
advice == <<session_count, suggestion>>

reminder_vars == <<break_due, reminder_minutes>>

driver_vars == <<driver_cmd, driver_pc>>

manager_vars == <<session_files, current_session, session_log>>

matrix_vars == <<tasks, quadrants, matrix_file, tasks_at_save, new_tasks,
                 new_quadrants>>

vars == <<timer_vars, advice, reminder_vars, stats_vars, driver_vars,
          manager_vars, matrix_vars>>
session == <<completed_sessions, is_running, is_paused, current_phase,
             total_time, start_time, paused_time, pause_offset,
             offset_rounds_down>>

\* ------------------------------------------------------------- arithmetic
Max(a, b) == IF a >= b THEN a ELSE b
Min(a, b) == IF a <= b THEN a ELSE b

\* Python int(x / d): truncation towards zero
IntTrunc(x, d) == IF x >= 0 THEN x \div d ELSE -((-x) \div d)

\* ---------------------------------------------------------------- queries
\* get_elapsed_seconds read at clock instant t
get_elapsed_seconds(t) ==
    IF start_time = None THEN 0
    ELSE LET elapsed == (t - start_time) - pause_offset
         IN  IF offset_rounds_down /\ elapsed > 0 /\ elapsed % TicksPerSecond = 0
             THEN (elapsed \div TicksPerSecond) - 1
             ELSE Max(0, IntTrunc(elapsed, TicksPerSecond))

\* variant: the clamp max(0, ...) forgotten
get_remaining_unclamped(t) == total_time - get_elapsed_seconds(t)

get_remaining_seconds(t) == Max(0, total_time - get_elapsed_seconds(t))

\* variant: min(100, ...) forgotten
get_progress_uncapped(t) ==
    IF total_time = 0 THEN <<0, 1>>
    ELSE <<get_elapsed_seconds(t) * 100, total_time>>

\* the percentage as an exact fraction <<numerator, denominator>>
get_progress_percentage(t) ==
    IF total_time = 0 THEN <<0, 1>>
    ELSE IF get_elapsed_seconds(t) * 100 >= 100 * total_time THEN <<100, 1>>
    ELSE <<get_elapsed_seconds(t) * 100, total_time>>

\* variant: < written for <=
is_phase_complete_strict(t) == get_remaining_seconds(t) < 0

is_phase_complete(t) == get_remaining_seconds(t) <= 0

FracLeq(p, q) == p[1] * q[2] <= q[1] * p[2]

\* ------------------------------------------------------------------ Init
\* PomodoroSession(work_minutes=w, short_break_minutes=s, long_break_minutes=l,
\* sessions_until_long_break=n), constructed at time 0
PomodoroSession(w, s, l, n) ==
    /\ now = 0
    /\ work_minutes = w
    /\ short_break_minutes = s
    /\ long_break_minutes = l
    /\ sessions_until_long_break = n
    /\ completed_sessions = 0
    /\ is_running = FALSE
    /\ is_paused = FALSE
    /\ current_phase = "work"
    /\ total_time = work_minutes * SecondsPerMinute
    /\ start_time = None
    /\ paused_time = None
    /\ pause_offset = 0
    /\ offset_rounds_down = FALSE
    /\ phase_log = <<>>
    /\ last_progress = NoProgress

InitAdvice ==
    /\ session_count = None
    /\ suggestion = ""
    /\ break_due = <<>>
    /\ reminder_minutes = <<>>

InitSession ==
    /\ \E w \in WorkMinutesSet, s \in ShortBreakMinutesSet,
          l \in LongBreakMinutesSet, n \in SessionsUntilLongBreakSet :
           PomodoroSession(w, s, l, n)
    /\ InitAdvice

\* --------------------------------------------------------------- commands
start ==
    /\ is_running' = TRUE
    /\ is_paused' = FALSE
    /\ start_time' = now
    /\ last_progress' = NoProgress
    /\ UNCHANGED <<now, config, completed_sessions, current_phase, total_time,
                   paused_time, pause_offset, offset_rounds_down, phase_log>>

\* variant: the test on is_paused forgotten
pause_restamps ==
    /\ IF is_running
       THEN /\ is_paused' = TRUE
            /\ paused_time' = now
       ELSE UNCHANGED <<is_paused, paused_time>>
    /\ UNCHANGED <<now, config, completed_sessions, is_running, current_phase,
                   total_time, start_time, pause_offset, offset_rounds_down,
                   phase_log, last_progress>>

\* variant: the pause instant not recorded
pause_unstamped ==
    /\ IF is_running /\ ~is_paused
       THEN /\ is_paused' = TRUE
            /\ UNCHANGED paused_time
       ELSE UNCHANGED <<is_paused, paused_time>>
    /\ UNCHANGED <<now, config, completed_sessions, is_running, current_phase,
                   total_time, start_time, pause_offset, offset_rounds_down,
                   phase_log, last_progress>>

pause ==
    /\ IF is_running /\ ~is_paused
       THEN /\ is_paused' = TRUE
            /\ paused_time' = now
       ELSE UNCHANGED <<is_paused, paused_time>>
    /\ UNCHANGED <<now, config, completed_sessions, is_running, current_phase,
                   total_time, start_time, pause_offset, offset_rounds_down,
                   phase_log, last_progress>>

\* how pause_offset + pause_duration can round: adding 0.0 changes nothing,
\* 0.0 itself is exact, any other sum depends on the digits of the instants
FloatRounding(offset, pause_duration) ==
    IF offset + pause_duration = 0 THEN {FALSE}
    ELSE IF pause_duration = 0 THEN {offset_rounds_down}
    ELSE BOOLEAN

\* variant: the pause measured from start_time instead of paused_time
resume_from_start ==
    /\ IF is_paused /\ paused_time # None
       THEN /\ pause_offset' = pause_offset + (now - start_time)
            /\ offset_rounds_down' \in FloatRounding(pause_offset, now - start_time)
            /\ is_paused' = FALSE
            /\ paused_time' = None
       ELSE UNCHANGED <<pause_offset, offset_rounds_down, is_paused, paused_time>>
    /\ UNCHANGED <<now, config, completed_sessions, is_running, current_phase,
                   total_time, start_time, phase_log, last_progress>>

resume ==
    /\ IF is_paused /\ paused_time # None
       THEN /\ pause_offset' = pause_offset + (now - paused_time)
            /\ offset_rounds_down' \in FloatRounding(pause_offset, now - paused_time)
            /\ is_paused' = FALSE
            /\ paused_time' = None
       ELSE UNCHANGED <<pause_offset, offset_rounds_down, is_paused, paused_time>>
    /\ UNCHANGED <<now, config, completed_sessions, is_running, current_phase,
                   total_time, start_time, phase_log, last_progress>>

\* variant: stop() that forgets to clear is_paused
stop_keeps_paused ==
    /\ is_running' = FALSE
    /\ UNCHANGED <<now, config, completed_sessions, is_paused, current_phase,
                   total_time, start_time, paused_time, pause_offset,
                   offset_rounds_down, phase_log, last_progress>>

\* variant: stop() that also resets the session counter
stop_resets_count ==
    /\ is_running' = FALSE
    /\ is_paused' = FALSE
    /\ completed_sessions' = 0
    /\ UNCHANGED <<now, config, current_phase, total_time, start_time,
                   paused_time, pause_offset, offset_rounds_down, phase_log,
                   last_progress>>

stop ==
    /\ is_running' = FALSE
    /\ is_paused' = FALSE
    /\ UNCHANGED <<now, config, completed_sessions, current_phase, total_time,
                   start_time, paused_time, pause_offset, offset_rounds_down,
                   phase_log, last_progress>>

\* variant: the long-break test made on the count before the increment
next_phase_stale_count ==
    /\ Len(phase_log) < MaxAdvances
    /\ IF current_phase = "work"
       THEN /\ completed_sessions' = completed_sessions + 1
            /\ IF completed_sessions % sessions_until_long_break = 0
               THEN /\ current_phase' = "long_break"
                    /\ total_time' = long_break_minutes * SecondsPerMinute
               ELSE /\ current_phase' = "short_break"
                    /\ total_time' = short_break_minutes * SecondsPerMinute
       ELSE /\ current_phase' = "work"
            /\ total_time' = work_minutes * SecondsPerMinute
            /\ UNCHANGED completed_sessions
    /\ start_time' = now
    /\ pause_offset' = 0
    /\ offset_rounds_down' = FALSE
    /\ is_running' = TRUE
    /\ is_paused' = FALSE
    /\ phase_log' = Append(phase_log, current_phase')
    /\ last_progress' = NoProgress
    /\ UNCHANGED <<now, config, paused_time>>

\* variant: the counter incremented on every transition
next_phase_counts_every ==
    /\ Len(phase_log) < MaxAdvances
    /\ completed_sessions' = completed_sessions + 1
    /\ IF current_phase = "work"
       THEN IF (completed_sessions + 1) % sessions_until_long_break = 0
            THEN /\ current_phase' = "long_break"
                 /\ total_time' = long_break_minutes * SecondsPerMinute
            ELSE /\ current_phase' = "short_break"
                 /\ total_time' = short_break_minutes * SecondsPerMinute
       ELSE /\ current_phase' = "work"
            /\ total_time' = work_minutes * SecondsPerMinute
    /\ start_time' = now
    /\ pause_offset' = 0
    /\ offset_rounds_down' = FALSE
    /\ is_running' = TRUE
    /\ is_paused' = FALSE
    /\ phase_log' = Append(phase_log, current_phase')
    /\ last_progress' = NoProgress
    /\ UNCHANGED <<now, config, paused_time>>

\* variant: pause_offset carried over into the new phase
next_phase_keeps_offset ==
    /\ Len(phase_log) < MaxAdvances
    /\ IF current_phase = "work"
       THEN /\ completed_sessions' = completed_sessions + 1
            /\ IF (completed_sessions + 1) % sessions_until_long_break = 0
               THEN /\ current_phase' = "long_break"
                    /\ total_time' = long_break_minutes * SecondsPerMinute
               ELSE /\ current_phase' = "short_break"
                    /\ total_time' = short_break_minutes * SecondsPerMinute
       ELSE /\ current_phase' = "work"
            /\ total_time' = work_minutes * SecondsPerMinute
            /\ UNCHANGED completed_sessions
    /\ start_time' = now
    /\ is_running' = TRUE
    /\ is_paused' = FALSE
    /\ phase_log' = Append(phase_log, current_phase')
    /\ last_progress' = NoProgress
    /\ UNCHANGED <<now, config, paused_time, pause_offset, offset_rounds_down>>

\* variant: total_time not recomputed on the way back to work
next_phase_keeps_total ==
    /\ Len(phase_log) < MaxAdvances
    /\ IF current_phase = "work"
       THEN /\ completed_sessions' = completed_sessions + 1
            /\ IF (completed_sessions + 1) % sessions_until_long_break = 0
               THEN /\ current_phase' = "long_break"
                    /\ total_time' = long_break_minutes * SecondsPerMinute
               ELSE /\ current_phase' = "short_break"
                    /\ total_time' = short_break_minutes * SecondsPerMinute
       ELSE /\ current_phase' = "work"
            /\ UNCHANGED <<total_time, completed_sessions>>
    /\ start_time' = now
    /\ pause_offset' = 0
    /\ offset_rounds_down' = FALSE
    /\ is_running' = TRUE
    /\ is_paused' = FALSE
    /\ phase_log' = Append(phase_log, current_phase')
    /\ last_progress' = NoProgress
    /\ UNCHANGED <<now, config, paused_time>>

\* variant: the two kinds of break taken for each other
next_phase_swapped_breaks ==
    /\ Len(phase_log) < MaxAdvances
    /\ IF current_phase = "work"
       THEN /\ completed_sessions' = completed_sessions + 1
            /\ IF (completed_sessions + 1) % sessions_until_long_break # 0
               THEN /\ current_phase' = "long_break"
                    /\ total_time' = long_break_minutes * SecondsPerMinute
               ELSE /\ current_phase' = "short_break"
                    /\ total_time' = short_break_minutes * SecondsPerMinute
       ELSE /\ current_phase' = "work"
            /\ total_time' = work_minutes * SecondsPerMinute
            /\ UNCHANGED completed_sessions
    /\ start_time' = now
    /\ pause_offset' = 0
    /\ offset_rounds_down' = FALSE
    /\ is_running' = TRUE
    /\ is_paused' = FALSE
    /\ phase_log' = Append(phase_log, current_phase')
    /\ last_progress' = NoProgress
    /\ UNCHANGED <<now, config, paused_time>>

\* next_phase: stop(), the transition, then the restart of the clock fields
next_phase ==
    /\ Len(phase_log) < MaxAdvances
    /\ IF current_phase = "work"
       THEN /\ completed_sessions' = completed_sessions + 1
            /\ IF (completed_sessions + 1) % sessions_until_long_break = 0
               THEN /\ current_phase' = "long_break"
                    /\ total_time' = long_break_minutes * SecondsPerMinute
               ELSE /\ current_phase' = "short_break"
                    /\ total_time' = short_break_minutes * SecondsPerMinute
       ELSE /\ current_phase' = "work"
            /\ total_time' = work_minutes * SecondsPerMinute
            /\ UNCHANGED completed_sessions
    /\ start_time' = now
    /\ pause_offset' = 0
    /\ offset_rounds_down' = FALSE
    /\ is_running' = TRUE
    /\ is_paused' = FALSE
    /\ phase_log' = Append(phase_log, current_phase')
    /\ last_progress' = NoProgress
    /\ UNCHANGED <<now, config, paused_time>>

\* a caller reads get_progress_percentage (and with it the other queries)
read_progress ==
    /\ last_progress' = IF is_running /\ ~is_paused
                        THEN get_progress_percentage(now)
                        ELSE last_progress
    /\ UNCHANGED <<now, config, session, phase_log>>

\* ---------------------------------------------------------- BreakReminder
\* the suggestion tables (the texts without their trailing emoji)
suggestions ==
    [short |-> << "Stretch your arms and neck",
                  "Look 20 feet away for 20 seconds",
                  "Take 3 deep breaths",
                  "Hydrate! Drink some water",
                  "Stand up and shake it out" >>,
     medium |-> << "Walk around the room",
                   "Do 10 jumping jacks",
                   "Refill your water bottle",
                   "Clear your desk clutter",
                   "Check the weather outside" >>,
     long |-> << "Go for a short walk outside",
                 "Eat a healthy snack",
                 "Do a quick meditation session",
                 "Call a friend or family member",
                 "Listen to your favorite song" >>]

should_take_break(t) ==
    IF current_phase = "break" THEN FALSE
    ELSE get_elapsed_seconds(t) > IdleThreshold

\* variant: the two modulus tests in the other order
suggestion_category_swapped(n) ==
    IF n % 2 = 0 THEN "medium"
    ELSE IF n % 4 = 0 THEN "long"
    ELSE "short"

suggestion_category(n) ==
    IF n % 4 = 0 THEN "long"
    ELSE IF n % 2 = 0 THEN "medium"
    ELSE "short"

\* str.title() on the three category names
title(category) ==
    CASE category = "long" -> "Long"
      [] category = "medium" -> "Medium"
      [] category = "short" -> "Short"

\* r is the index random.choice picks in the category's table
get_break_suggestion(n, r) ==
    "(" \o title(suggestion_category(n)) \o " Break) "
        \o suggestions[suggestion_category(n)][r]

\* a call get_break_suggestion(n), whatever random.choice picks
suggestion_asked(n) ==
    \E r \in 1..Len(suggestions[suggestion_category(n)]) :
        /\ session_count' = n
        /\ suggestion' = get_break_suggestion(n, r)
        /\ UNCHANGED timer_vars

call_get_break_suggestion ==
    \E n \in 0..MaxSessionCount : suggestion_asked(n)

call_should_take_break ==
    /\ break_due' = <<should_take_break(now)>>
    /\ UNCHANGED <<advice, reminder_minutes>>
    /\ UNCHANGED timer_vars

\* variant: a reminder that moves the session on to its break
trigger_reminder_advances ==
    \E r \in 1..Len(suggestions[suggestion_category(completed_sessions)]) :
        /\ session_count' = completed_sessions
        /\ suggestion' = get_break_suggestion(completed_sessions, r)
        /\ reminder_minutes' = <<get_elapsed_seconds(now) \div SecondsPerMinute>>
        /\ UNCHANGED break_due
        /\ next_phase

\* trigger_reminder with a reminder_callback that shows the message
trigger_reminder ==
    \E r \in 1..Len(suggestions[suggestion_category(completed_sessions)]) :
        /\ session_count' = completed_sessions
        /\ suggestion' = get_break_suggestion(completed_sessions, r)
        /\ reminder_minutes' = <<get_elapsed_seconds(now) \div SecondsPerMinute>>
        /\ UNCHANGED break_due
        /\ UNCHANGED timer_vars

\* ------------------------------------------------------------------ clock
SubPart(t) == t % TicksPerMinute
MinutePart(t) == (t \div TicksPerMinute) % 60
HourPart(t) == t \div TicksPerHour

TickSub ==
    /\ SubPart(now) < MaxSubTicks
    /\ now' = now + 1
    /\ UNCHANGED <<config, session, phase_log, last_progress>>

TickMinute ==
    /\ MinutePart(now) < MaxMinutes
    /\ now' = now + TicksPerMinute
    /\ UNCHANGED <<config, session, phase_log, last_progress>>

TickHour ==
    /\ HourPart(now) < MaxHours
    /\ now' = now + TicksPerHour
    /\ UNCHANGED <<config, session, phase_log, last_progress>>

\* ----------------------------------------------------------- StatsManager
\* DailyStats(date=d) with the defaults of the class
DailyStats(d) ==
    [date |-> d, work_sessions |-> 0, work_minutes |-> 0, breaks_taken |-> 0,
     longest_focus |-> 0, tasks_completed |-> 0]

\* v.model_dump(): the dict json.dump writes for one day
model_dump(v) ==
    [date |-> v.date, work_sessions |-> v.work_sessions,
     work_minutes |-> v.work_minutes, breaks_taken |-> v.breaks_taken,
     longest_focus |-> v.longest_focus, tasks_completed |-> v.tasks_completed]

\* variant: a field left out when the file is read back, so its default stays
DailyStatsFrom_drops_focus(v) ==
    [date |-> v.date, work_sessions |-> v.work_sessions,
     work_minutes |-> v.work_minutes, breaks_taken |-> v.breaks_taken,
     longest_focus |-> 0, tasks_completed |-> v.tasks_completed]

\* DailyStats(**v) on a dict read back by json.load
DailyStatsFrom(v) ==
    [date |-> v.date, work_sessions |-> v.work_sessions,
     work_minutes |-> v.work_minutes, breaks_taken |-> v.breaks_taken,
     longest_focus |-> v.longest_focus, tasks_completed |-> v.tasks_completed]

\* _load_stats: a missing file and a file holding {} both give {}
load_stats(file) == [k \in DOMAIN file |-> DailyStatsFrom(file[k])]

\* what save() writes for the in-memory stats st
saved(st) == [k \in DOMAIN st |-> model_dump(st[k])]

\* the stats after get_today_stats() has made sure today has an entry
with_today(st) ==
    [k \in DOMAIN st \cup {today} |->
        IF k \in DOMAIN st THEN st[k] ELSE DailyStats(today)]

\* what get_today_stats() returns on the stats st
today_stats(st) == IF today \in DOMAIN st THEN st[today] ELSE DailyStats(today)

InitStats ==
    /\ today = 1
    /\ stats_file = <<>>
    /\ stats = load_stats(stats_file)
    /\ focus_log = <<>>

get_today_stats ==
    /\ stats' = with_today(stats)
    /\ UNCHANGED <<today, stats_file, focus_log>>

\* variant: the longest focus overwritten by every session
record_work_session_last_wins(minutes) ==
    /\ stats' = [with_today(stats) EXCEPT ![today] =
                    [@ EXCEPT !.work_sessions = @ + 1,
                              !.work_minutes = @ + minutes,
                              !.longest_focus = minutes]]
    /\ stats_file' = saved(stats')
    /\ focus_log' = Append(focus_log, <<today, minutes>>)
    /\ UNCHANGED today

record_work_session(minutes) ==
    /\ stats' = [with_today(stats) EXCEPT ![today] =
                    [@ EXCEPT !.work_sessions = @ + 1,
                              !.work_minutes = @ + minutes,
                              !.longest_focus =
                                  IF minutes > @ THEN minutes ELSE @]]
    /\ stats_file' = saved(stats')
    /\ focus_log' = Append(focus_log, <<today, minutes>>)
    /\ UNCHANGED today

record_break ==
    /\ stats' = [with_today(stats) EXCEPT ![today] =
                    [@ EXCEPT !.breaks_taken = @ + 1]]
    /\ stats_file' = saved(stats')
    /\ UNCHANGED <<today, focus_log>>

record_task_completion ==
    /\ stats' = [with_today(stats) EXCEPT ![today] =
                    [@ EXCEPT !.tasks_completed = @ + 1]]
    /\ stats_file' = saved(stats')
    /\ UNCHANGED <<today, focus_log>>

\* StatsManager(stats_file) constructed anew on the same file
new_stats_manager ==
    /\ stats' = load_stats(stats_file)
    /\ UNCHANGED <<today, stats_file, focus_log>>

\* midnight passes
next_day ==
    /\ today < MaxDays
    /\ today' = today + 1
    /\ UNCHANGED <<stats, stats_file, focus_log>>

\* ------------------------------------------------- the pomodoro commands
Commands == {"start", "work-on"}

\* the keys the loop tells apart; "" is no key waiting, "x" any other key
Keys == {"", "p", "r", "s", "n", "x"}

DefaultShortBreakMinutes == 5
DefaultLongBreakMinutes == 15
DefaultSessionsUntilLongBreak == 4
DefaultSessionCount == 1

InitDriver ==
    /\ driver_cmd \in Commands
    /\ driver_pc = "new"

\* the timer, the advisor and the stats on their own, outside any command
NoCommand ==
    /\ driver_cmd = "none"
    /\ driver_pc = "new"

\* the session a command constructs: "start" passes work, short and long,
\* "work-on" only work
CommandSession ==
    \E w \in WorkMinutesSet :
        \/ /\ driver_cmd = "start"
           /\ \E s \in ShortBreakMinutesSet, l \in LongBreakMinutesSet :
                  PomodoroSession(w, s, l, DefaultSessionsUntilLongBreak)
        \/ /\ driver_cmd = "work-on"
           /\ PomodoroSession(w, DefaultShortBreakMinutes,
                              DefaultLongBreakMinutes,
                              DefaultSessionsUntilLongBreak)

\* record stats before switching
record_phase ==
    IF current_phase = "work"
    THEN record_work_session(work_minutes)
    ELSE record_break

\* the break suggestion printed when the phase entered is a break
announce ==
    IF current_phase' # "work"
    THEN LET n == IF driver_cmd = "start" THEN DefaultSessionCount
                  ELSE completed_sessions'
         IN  \E r \in 1..Len(suggestions[suggestion_category(n)]) :
                 /\ session_count' = n
                 /\ suggestion' = get_break_suggestion(n, r)
    ELSE UNCHANGED advice

advance == record_phase /\ next_phase /\ announce

\* KeyboardInterrupt after the stats call and before next_phase
advance_interrupted == record_phase /\ stop /\ UNCHANGED advice

loop_begin ==
    /\ driver_pc = "new"
    /\ start
    /\ driver_pc' = "keys"
    /\ UNCHANGED <<driver_cmd, advice, stats_vars>>

loop_key(key) ==
    /\ driver_pc = "keys"
    /\ driver_pc' = IF key = "s" THEN "done" ELSE "check"
    /\ UNCHANGED driver_cmd
    /\ CASE key = "p" -> pause /\ UNCHANGED <<advice, stats_vars>>
         [] key = "r" -> resume /\ UNCHANGED <<advice, stats_vars>>
         [] key = "s" -> stop /\ UNCHANGED <<advice, stats_vars>>
         [] key = "n" -> advance
         [] OTHER -> UNCHANGED <<timer_vars, advice, stats_vars>>

loop_key_interrupted ==
    /\ driver_pc = "keys"
    /\ advance_interrupted
    /\ driver_pc' = "done"
    /\ UNCHANGED driver_cmd

\* variant: the loop advances only once the phase has run over its time
loop_check_overdue ==
    /\ driver_pc = "check"
    /\ driver_pc' = "sleep"
    /\ UNCHANGED driver_cmd
    /\ IF ~is_paused /\ is_phase_complete_strict(now)
       THEN advance
       ELSE UNCHANGED <<timer_vars, advice, stats_vars>>

loop_check ==
    /\ driver_pc = "check"
    /\ driver_pc' = "sleep"
    /\ UNCHANGED driver_cmd
    /\ IF ~is_paused /\ is_phase_complete(now)
       THEN advance
       ELSE UNCHANGED <<timer_vars, advice, stats_vars>>

loop_check_interrupted ==
    /\ driver_pc = "check"
    /\ ~is_paused /\ is_phase_complete(now)
    /\ advance_interrupted
    /\ driver_pc' = "done"
    /\ UNCHANGED driver_cmd

\* time.sleep(0.1) and the loop test
loop_sleep ==
    /\ driver_pc = "sleep"
    /\ driver_pc' = IF is_running THEN "keys" ELSE "done"
    /\ UNCHANGED <<driver_cmd, timer_vars, advice, stats_vars>>

\* KeyboardInterrupt during the sleep
loop_interrupt ==
    /\ driver_pc = "sleep"
    /\ stop
    /\ driver_pc' = "done"
    /\ UNCHANGED <<driver_cmd, advice, stats_vars>>

\* --------------------------------------------------------- SessionManager
\* the ids str(uuid.uuid4())[:8] can give
SessionIds == {"1a", "2b", "3c"}
SessionNames == {"fix", "docs"}

NoSession == ""

\* the session record start writes; at is the count of calls so far, for
\* datetime.now()
NewSession(id, name, at) ==
    [session_id |-> id, name |-> name, created_at |-> at, last_active |-> at,
     status |-> "active"]

InitManager ==
    /\ session_files = [k \in {} |-> k]
    /\ current_session = NoSession
    /\ session_log = <<>>

\* variant: the status written to every session file
save_session_all(files, id, record) ==
    [k \in DOMAIN files \cup {id} |->
        IF k = id THEN record ELSE [files[k] EXCEPT !.status = record.status]]

\* _save_session: the file of id is rewritten, the others are left alone
save_session(files, id, record) ==
    [k \in DOMAIN files \cup {id} |-> IF k = id THEN record ELSE files[k]]

session_start(name) ==
    \E id \in SessionIds :
        /\ session_files' = save_session(session_files, id,
                                NewSession(id, name, Len(session_log)))
        /\ current_session' = id
        /\ session_log' = Append(session_log, <<"start", id>>)

\* pause(session_id); NoSession is pause() with no argument.  With no
\* current session it raises ValueError, with no file of that id
\* FileNotFoundError: nothing is written then
session_pause(session_id) ==
    LET id == IF session_id = NoSession THEN current_session ELSE session_id
    IN  IF id = NoSession \/ id \notin DOMAIN session_files
        THEN UNCHANGED manager_vars
        ELSE /\ session_files' =
                    save_session(session_files, id,
                        [session_files[id] EXCEPT
                            !.status = "paused",
                            !.last_active = Len(session_log)])
             /\ session_log' = Append(session_log, <<"pause", id>>)
             /\ UNCHANGED current_session

session_resume(session_id) ==
    IF session_id \notin DOMAIN session_files
    THEN UNCHANGED manager_vars
    ELSE /\ session_files' =
                save_session(session_files, session_id,
                    [session_files[session_id] EXCEPT
                        !.status = "active",
                        !.last_active = Len(session_log)])
         /\ current_session' = session_id
         /\ session_log' = Append(session_log, <<"resume", session_id>>)

\* ------------------------------------------------------- EisenhowerMatrix
TaskIds == {"1", "2"}
TaskTitles == {"Test Task", "Other"}
Quadrants == {"q1", "q2", "q3", "q4"}

NoFile == [k \in {"no file"} |-> TRUE]
NotLoaded == [k \in {"not loaded"} |-> TRUE]

\* Task(id=id, title=text, is_urgent=urgent, is_important=important)
Task(id, text, urgent, important) ==
    [id |-> id, title |-> text, description |-> "", is_urgent |-> urgent,
     is_important |-> important, repo |-> "", issue_number |-> 0,
     estimated_time |-> 0, completed |-> FALSE]

get_quadrant(task) ==
    IF task.is_urgent /\ task.is_important THEN "q1"
    ELSE IF ~task.is_urgent /\ task.is_important THEN "q2"
    ELSE IF task.is_urgent /\ ~task.is_important THEN "q3"
    ELSE "q4"

\* task.model_dump()
task_dump(task) ==
    [id |-> task.id, title |-> task.title, description |-> task.description,
     is_urgent |-> task.is_urgent, is_important |-> task.is_important,
     repo |-> task.repo, issue_number |-> task.issue_number,
     estimated_time |-> task.estimated_time, completed |-> task.completed]

\* variant: completed left at its default when the file is read back
TaskFrom_not_completed(data) ==
    [id |-> data.id, title |-> data.title, description |-> data.description,
     is_urgent |-> data.is_urgent, is_important |-> data.is_important,
     repo |-> data.repo, issue_number |-> data.issue_number,
     estimated_time |-> data.estimated_time, completed |-> FALSE]

\* Task(**task_data)
TaskFrom(data) ==
    [id |-> data.id, title |-> data.title, description |-> data.description,
     is_urgent |-> data.is_urgent, is_important |-> data.is_important,
     repo |-> data.repo, issue_number |-> data.issue_number,
     estimated_time |-> data.estimated_time, completed |-> data.completed]

\* EisenhowerMatrix()
EmptyMatrix ==
    [tasks |-> [k \in {} |-> k], quadrants |-> [q \in Quadrants |-> <<>>]]

\* the matrix m after m.add_task(task)
added(m, task) ==
    [tasks |-> [k \in DOMAIN m.tasks \cup {task.id} |->
                    IF k = task.id THEN task ELSE m.tasks[k]],
     quadrants |-> [m.quadrants EXCEPT
                       ![get_quadrant(task)] = Append(@, task.id)]]

\* the loop of load over the entries ids of the file, on the matrix m; the
\* order of the entries only orders the ids inside a quadrant list
RECURSIVE loaded_from(_, _, _)
loaded_from(m, data, ids) ==
    IF ids = {} THEN m
    ELSE LET tid == CHOOSE x \in ids : TRUE
         IN  loaded_from(added(m, TaskFrom(data[tid])), data, ids \ {tid})

\* the matrix m after m.load(path)
loaded(m, file) ==
    IF file = NoFile THEN m
    ELSE loaded_from(EmptyMatrix, file, DOMAIN file)

InitMatrix ==
    /\ tasks = EmptyMatrix.tasks
    /\ quadrants = EmptyMatrix.quadrants
    /\ matrix_file = NoFile
    /\ tasks_at_save = NoFile
    /\ new_tasks = NotLoaded
    /\ new_quadrants = NotLoaded

add_task(task) ==
    LET m == added([tasks |-> tasks, quadrants |-> quadrants], task)
    IN  /\ tasks' = m.tasks
        /\ quadrants' = m.quadrants
        /\ UNCHANGED <<matrix_file, tasks_at_save, new_tasks, new_quadrants>>

mark_complete(task_id) ==
    /\ tasks' = IF task_id \in DOMAIN tasks
                THEN [tasks EXCEPT ![task_id].completed = TRUE]
                ELSE tasks
    /\ UNCHANGED <<quadrants, matrix_file, tasks_at_save, new_tasks,
                   new_quadrants>>

save ==
    /\ matrix_file' = [tid \in DOMAIN tasks |-> task_dump(tasks[tid])]
    /\ tasks_at_save' = tasks
    /\ UNCHANGED <<tasks, quadrants, new_tasks, new_quadrants>>

\* load(path) on the matrix itself
load ==
    LET m == loaded([tasks |-> tasks, quadrants |-> quadrants], matrix_file)
    IN  /\ tasks' = m.tasks
        /\ quadrants' = m.quadrants
        /\ UNCHANGED <<matrix_file, tasks_at_save, new_tasks, new_quadrants>>

\* new_matrix = EisenhowerMatrix(); new_matrix.load(path)
load_new_matrix ==
    LET m == loaded(EmptyMatrix, matrix_file)
    IN  /\ new_tasks' = m.tasks
        /\ new_quadrants' = m.quadrants
        /\ UNCHANGED <<tasks, quadrants, matrix_file, tasks_at_save>>

\* --------------------------------------------------------- specifications
Init ==
    /\ InitSession
    /\ InitStats
    /\ NoCommand
    /\ InitManager
    /\ InitMatrix

not_timer == <<advice, reminder_vars, stats_vars, driver_vars, manager_vars,
              matrix_vars>>
not_advice == <<reminder_vars, stats_vars, driver_vars, manager_vars,
               matrix_vars>>
not_reminder == <<stats_vars, driver_vars, manager_vars, matrix_vars>>
not_stats == <<timer_vars, advice, reminder_vars, driver_vars, manager_vars,
              matrix_vars>>
not_driver == <<reminder_vars, manager_vars, matrix_vars>>
not_manager == <<timer_vars, advice, reminder_vars, stats_vars, driver_vars,
                matrix_vars>>
not_matrix == <<timer_vars, advice, reminder_vars, stats_vars, driver_vars,
               manager_vars>>

Next ==
    \/ start /\ UNCHANGED not_timer
    \/ pause /\ UNCHANGED not_timer
    \/ resume /\ UNCHANGED not_timer
    \/ stop /\ UNCHANGED not_timer
    \/ next_phase /\ UNCHANGED not_timer
    \/ read_progress /\ UNCHANGED not_timer
    \/ TickSub /\ UNCHANGED not_timer
    \/ TickMinute /\ UNCHANGED not_timer

Spec == Init /\ [][Next]_vars

\* long sittings: the clock runs for hours over a session nobody pauses
NextIdle ==
    \/ start /\ UNCHANGED not_timer
    \/ stop /\ UNCHANGED not_timer
    \/ next_phase /\ UNCHANGED not_timer
    \/ TickMinute /\ UNCHANGED not_timer
    \/ TickHour /\ UNCHANGED not_timer

SpecIdle == Init /\ [][NextIdle]_vars

\* the break advisor alone: get_break_suggestion over counts and choices
NextAdvisor == call_get_break_suggestion /\ UNCHANGED not_advice

SpecAdvisor == Init /\ [][NextAdvisor]_vars

\* the statistics alone: recordings, reloads and days, for the default timer
RECURSIVE calls_in(_, _)
calls_in(st, days) ==
    IF days = {} THEN 0
    ELSE LET d == CHOOSE x \in days : TRUE
         IN  st[d].work_sessions + st[d].breaks_taken + st[d].tasks_completed
                 + calls_in(st, days \ {d})

\* the number of recordings the stats st hold
recorded_calls(st) == calls_in(st, DOMAIN st)

InitDefault ==
    /\ \E s \in ShortBreakMinutesSet, l \in LongBreakMinutesSet :
           PomodoroSession(1, s, l, DefaultSessionsUntilLongBreak)
    /\ InitAdvice
    /\ InitStats
    /\ NoCommand
    /\ InitManager
    /\ InitMatrix

NextStats ==
    \/ get_today_stats /\ UNCHANGED not_stats
    \/ \E m \in 0..MaxFocusMinutes :
           /\ recorded_calls(stats) < MaxRecords
           /\ record_work_session(m)
           /\ UNCHANGED not_stats
    \/ recorded_calls(stats) < MaxRecords /\ record_break
          /\ UNCHANGED not_stats
    \/ recorded_calls(stats) < MaxRecords /\ record_task_completion
          /\ UNCHANGED not_stats
    \/ new_stats_manager /\ UNCHANGED not_stats
    \/ next_day /\ UNCHANGED not_stats

SpecStats == InitDefault /\ [][NextStats]_vars

\* the advisor and the queries called on a session that runs for hours
NextReminder ==
    \/ start /\ UNCHANGED not_timer
    \/ Len(phase_log) < MaxReminderAdvances /\ next_phase
          /\ UNCHANGED not_timer
    \/ TickMinute /\ UNCHANGED not_timer
    \/ TickHour /\ UNCHANGED not_timer
    \/ read_progress /\ UNCHANGED not_timer
    \/ call_should_take_break /\ UNCHANGED not_reminder
    \/ \E n \in 0..MaxReminderCount :
           suggestion_asked(n) /\ UNCHANGED not_advice
    \/ trigger_reminder /\ UNCHANGED not_reminder

SpecReminder == InitDefault /\ [][NextReminder]_vars

\* a pomodoro command from its first line to the end of its loop
InitCommand ==
    /\ InitDriver
    /\ CommandSession
    /\ InitAdvice
    /\ InitStats
    /\ InitManager
    /\ InitMatrix

NextDriver ==
    \/ loop_begin /\ UNCHANGED not_driver
    \/ \E key \in Keys : loop_key(key) /\ UNCHANGED not_driver
    \/ loop_key_interrupted /\ UNCHANGED not_driver
    \/ loop_check /\ UNCHANGED not_driver
    \/ loop_check_interrupted /\ UNCHANGED not_driver
    \/ loop_sleep /\ UNCHANGED not_driver
    \/ loop_interrupt /\ UNCHANGED not_driver
    \/ driver_pc = "sleep" /\ TickMinute /\ UNCHANGED driver_vars
          /\ UNCHANGED not_timer
    \/ driver_pc = "sleep" /\ next_day /\ UNCHANGED driver_vars
          /\ UNCHANGED not_stats

SpecDriver == InitCommand /\ [][NextDriver]_vars

\* the steps of the command loop and of the clock, as steps of the whole state
DriverBegins == loop_begin /\ UNCHANGED not_driver
DriverPolls == (\E key \in Keys : loop_key(key)) /\ UNCHANGED not_driver
DriverChecks == loop_check /\ UNCHANGED not_driver
DriverSleeps == loop_sleep /\ UNCHANGED not_driver
ClockAdvances ==
    /\ driver_pc = "sleep"
    /\ TickMinute
    /\ UNCHANGED driver_vars
    /\ UNCHANGED not_timer

\* the command loop that keeps running: every statement of the loop body is
\* executed once control reaches it, and time passes in time.sleep(0.1)
\* again and again (the clock moves only there, so the fairness is strong)
NextDriverLive ==
    \/ DriverBegins
    \/ DriverPolls
    \/ DriverChecks
    \/ DriverSleeps
    \/ loop_interrupt /\ UNCHANGED not_driver
    \/ ClockAdvances

SpecDriverLive ==
    /\ InitCommand
    /\ [][NextDriverLive]_vars
    /\ WF_vars(DriverBegins)
    /\ WF_vars(DriverPolls)
    /\ WF_vars(DriverChecks)
    /\ WF_vars(DriverSleeps)
    /\ SF_vars(ClockAdvances)

\* the session manager alone
NextSessions ==
    \/ \E name \in SessionNames :
           /\ Len(session_log) < MaxSessionOps
           /\ session_start(name)
           /\ UNCHANGED not_manager
    \/ \E id \in SessionIds \cup {NoSession} :
           /\ Len(session_log) < MaxSessionOps
           /\ session_pause(id)
           /\ UNCHANGED not_manager
    \/ \E id \in SessionIds :
           /\ Len(session_log) < MaxSessionOps
           /\ session_resume(id)
           /\ UNCHANGED not_manager

SpecSessions == InitDefault /\ [][NextSessions]_vars

\* the matrix alone: tasks added and completed, saved, loaded by a new matrix
RECURSIVE SumLen(_, _)
SumLen(lists, keys) ==
    IF keys = {} THEN 0
    ELSE LET q == CHOOSE x \in keys : TRUE
         IN  Len(lists[q]) + SumLen(lists, keys \ {q})

NextMatrix ==
    \/ \E id \in TaskIds, text \in TaskTitles, u \in BOOLEAN, i \in BOOLEAN :
           /\ SumLen(quadrants, Quadrants) < MaxAdds
           /\ add_task(Task(id, text, u, i))
           /\ UNCHANGED not_matrix
    \/ \E id \in TaskIds : mark_complete(id) /\ UNCHANGED not_matrix
    \/ save /\ UNCHANGED not_matrix
    \/ load_new_matrix /\ UNCHANGED not_matrix

SpecMatrix == InitDefault /\ [][NextMatrix]_vars

\* the matrix that also reloads itself from its file
NextMatrixLoad ==
    \/ NextMatrix
    \/ load /\ UNCHANGED not_matrix

SpecMatrixLoad == InitDefault /\ [][NextMatrixLoad]_vars

\* ================================================================= claims

BreakPhases == {"short_break", "long_break"}

\* the phase the i-th next_phase call must enter, by the cycle rule
ExpectedPhase(i) ==
    IF i % 2 = 0 THEN "work"
    ELSE IF ((i + 1) \div 2) % sessions_until_long_break = 0 THEN "long_break"
    ELSE "short_break"

CycleOfFour == << "short_break", "work", "short_break", "work",
                  "short_break", "work", "long_break" >>

\* C1: from a fresh session in Work, the phases entered by successive
\* next_phase calls alternate break and work, the k-th exit from work enters
\* long_break exactly when k mod sessions_until_long_break = 0, and for a
\* cycle of 4 the first seven are short, work, short, work, short, work,
\* long; start, pause, resume and stop in between change nothing of this.
C1_PhaseCycle ==
    /\ \A i \in 1..Len(phase_log) : phase_log[i] = ExpectedPhase(i)
    /\ sessions_until_long_break = 4 =>
          \A i \in 1..Min(Len(phase_log), Len(CycleOfFour)) :
              phase_log[i] = CycleOfFour[i]
    /\ current_phase = IF phase_log = <<>> THEN "work"
                       ELSE phase_log[Len(phase_log)]

C1_Witness ==
    /\ sessions_until_long_break = 4
    /\ Len(phase_log) = Len(CycleOfFour)
    /\ current_phase = "long_break"
    /\ paused_time # None
    /\ ~is_running

\* C2: an effective resume() leaves get_elapsed_seconds() equal to what it
\* was at the instant of the pause it ends, whatever the pause lasted.
C2_PauseNeverCounts ==
    [][(resume /\ is_paused /\ paused_time # None)
          => get_elapsed_seconds(now)' = get_elapsed_seconds(paused_time)]_vars

\* C3: while paused, progress, elapsed, remaining and completion read the
\* same as at the instant of the pause, however far the clock has advanced.
C3_FrozenWhilePaused ==
    (is_paused /\ paused_time # None) =>
        /\ get_progress_percentage(now) = get_progress_percentage(paused_time)
        /\ get_elapsed_seconds(now) = get_elapsed_seconds(paused_time)
        /\ get_remaining_seconds(now) = get_remaining_seconds(paused_time)
        /\ is_phase_complete(now) = is_phase_complete(paused_time)

\* C4: a progress read taken running and unpaused is never below an earlier
\* such read of the same phase with no start() or next_phase() in between.
C4_ProgressMonotone ==
    [][(read_progress /\ is_running /\ ~is_paused /\ last_progress # NoProgress)
          => FracLeq(last_progress, last_progress')]_vars

\* C5: at every instant get_remaining_seconds() = 0 exactly when
\* is_phase_complete(), zero-length phases included.
C5_RemainingZeroIffComplete ==
    (get_remaining_seconds(now) = 0) <=> is_phase_complete(now)

C5_Witness ==
    /\ is_running
    /\ total_time > 0
    /\ get_elapsed_seconds(now) > total_time
    /\ is_phase_complete(now)

\* C6: with no pause time accumulated in the phase (pause_offset = 0, which
\* is the case whenever no pause was made), a read exactly total_time
\* seconds after the instant start() stamped finds the phase complete and
\* no time remaining.
C6_CompleteAtDuration ==
    (start_time # None /\ pause_offset = 0
        /\ now = start_time + total_time * TicksPerSecond)
    => (is_phase_complete(now) /\ get_remaining_seconds(now) = 0)

\* start() made the stamp: no next_phase has run
C6_Witness ==
    /\ phase_log = <<>>
    /\ start_time # None
    /\ paused_time = None
    /\ total_time > 0
    /\ now = start_time + total_time * TicksPerSecond
    /\ is_phase_complete(now)

\* C7: should_take_break is true only in the work phase with more than
\* IdleThreshold seconds elapsed, never in a break phase.
C7_SuggestOnlyInWork ==
    should_take_break(now) =>
        (current_phase = "work" /\ get_elapsed_seconds(now) > IdleThreshold)

\* the category the bucketing rule assigns to a count
BucketOf(n) ==
    IF n % 4 = 0 THEN "long" ELSE IF n % 2 = 0 THEN "medium" ELSE "short"

LabelOf(category) ==
    CASE category = "long" -> "(Long Break) "
      [] category = "medium" -> "(Medium Break) "
      [] category = "short" -> "(Short Break) "

TextsOf(category) ==
    {LabelOf(category) \o suggestions[category][i] :
        i \in 1..Len(suggestions[category])}

\* C8: for every count n and every random choice, the text returned is the
\* label of the bucket of n (n mod 4 = 0 long, else n mod 2 = 0 medium, else
\* short) followed by one entry of that bucket's non-empty table; 4 gives
\* long, 2 medium, 1 and 3 short.
C8_SuggestionBucket ==
    /\ \A c \in {"short", "medium", "long"} : Len(suggestions[c]) > 0
    /\ session_count # None =>
          /\ suggestion \in TextsOf(BucketOf(session_count))
          /\ session_count = 4 => suggestion \in TextsOf("long")
          /\ session_count = 2 => suggestion \in TextsOf("medium")
          /\ session_count \in {1, 3} => suggestion \in TextsOf("short")

C8_Witness ==
    /\ session_count = 4
    /\ suggestion = "(Long Break) Eat a healthy snack"

\* C9: is_paused is never true while is_running is false.
C9_PausedImpliesRunning == is_paused => is_running

\* paused in a later phase, after an earlier pause of that phase was resumed
C9_Witness ==
    /\ is_paused
    /\ is_running
    /\ Len(phase_log) > 0
    /\ pause_offset > 0

\* C10: completed_sessions is never negative and changes only on a step
\* from work to a break phase, where it grows by exactly 1.
C10_CompletedSessionsCounter ==
    /\ [](completed_sessions >= 0)
    /\ [][/\ (current_phase = "work" /\ current_phase' \in BreakPhases)
               => completed_sessions' = completed_sessions + 1
          /\ ~(current_phase = "work" /\ current_phase' \in BreakPhases)
               => completed_sessions' = completed_sessions]_vars

C10_Witness ==
    /\ completed_sessions = 2
    /\ current_phase = "work"
    /\ Len(phase_log) = 4

\* C11: a start() issued on a stopped session begins the phase afresh: with
\* no later pause, get_elapsed_seconds() read k seconds after that start()
\* is k, up to the full length of the phase.
C11_StartAfterStopIsFresh ==
    [][(start /\ ~is_running /\ start_time # None)
          => \A k \in 0..total_time :
                 get_elapsed_seconds(now + k * TicksPerSecond)' = k]_vars

\* C12: pause() on a session that is not running or is already paused, and
\* resume() on a session that is not paused, change no field of the session.
C12_NoOpCommands ==
    [][/\ (pause /\ ~(is_running /\ ~is_paused)) => UNCHANGED session
       /\ (resume /\ ~is_paused) => UNCHANGED session]_vars

\* paused for a while: a second pause() would have an instant to overwrite
C12_Witness ==
    /\ is_paused
    /\ is_running
    /\ paused_time # None
    /\ now > paused_time

\* C13: an effective resume() adds now - paused_time to pause_offset, clears
\* paused_time and is_paused, and leaves phase, counter, total_time,
\* is_running and start_time alone; a resume() that finds the session not
\* paused adds nothing, so each pause interval is added once.
C13_ResumeAccumulates ==
    [][/\ (resume /\ is_paused /\ paused_time # None) =>
             /\ pause_offset' = pause_offset + (now - paused_time)
             /\ paused_time' = None
             /\ is_paused' = FALSE
             /\ UNCHANGED <<current_phase, completed_sessions, total_time,
                            is_running, start_time>>
       /\ (resume /\ ~is_paused) => pause_offset' = pause_offset]_vars

C13_Witness ==
    /\ is_running
    /\ ~is_paused
    /\ paused_time = None
    /\ pause_offset > 0
    /\ start_time # None
    /\ start_time > 0

\* C14: stop() clears is_running and is_paused and leaves current_phase,
\* completed_sessions and total_time as they were.
C14_StopKeepsCounters ==
    [][stop => /\ is_running' = FALSE
               /\ is_paused' = FALSE
               /\ UNCHANGED <<current_phase, completed_sessions,
                              total_time>>]_vars

\* stopped while paused in a break phase, the counter kept
C14_Witness ==
    /\ ~is_running
    /\ ~is_paused
    /\ paused_time # None
    /\ current_phase \in BreakPhases
    /\ completed_sessions > 0

\* C15: next_phase can be taken in every state, whatever the flags, and
\* leaves the session running, unpaused, with pause_offset = 0 and
\* start_time = now, so that elapsed reads 0 and remaining the full
\* duration of the phase entered.
C15_AdvanceAlwaysDefined ==
    /\ [](Len(phase_log) < MaxAdvances => ENABLED next_phase)
    /\ [][next_phase =>
             /\ is_running' = TRUE
             /\ is_paused' = FALSE
             /\ pause_offset' = 0
             /\ start_time' = now'
             /\ get_elapsed_seconds(now)' = 0
             /\ get_remaining_seconds(now)' = total_time']_vars

\* a phase entered from a paused session that had pause time accumulated
C15_Witness ==
    /\ Len(phase_log) > 1
    /\ start_time = now
    /\ now > 0
    /\ paused_time # None
    /\ pause_offset = 0
    /\ is_running
    /\ ~is_paused

\* the minutes of the work sessions recorded today
TodaysMinutes ==
    {focus_log[i][2] : i \in {j \in 1..Len(focus_log) : focus_log[j][1] = today}}

SetMax(S) == CHOOSE x \in S : \A y \in S : y <= x

\* C17: record_work_session(m) adds 1 to today's work_sessions and m to
\* work_minutes and raises longest_focus to m if m is larger;
\* record_break adds 1 to breaks_taken only, record_task_completion 1 to
\* tasks_completed only; at all times longest_focus is the largest m
\* recorded today and at most work_minutes.
C17_StatsRecording ==
    /\ [][/\ \A m \in 0..MaxFocusMinutes :
                record_work_session(m) =>
                    today_stats(stats') =
                        [today_stats(stats) EXCEPT
                            !.work_sessions = @ + 1,
                            !.work_minutes = @ + m,
                            !.longest_focus = Max(@, m)]
          /\ record_break =>
                today_stats(stats') =
                    [today_stats(stats) EXCEPT !.breaks_taken = @ + 1]
          /\ record_task_completion =>
                today_stats(stats') =
                    [today_stats(stats) EXCEPT !.tasks_completed = @ + 1]]_vars
    /\ [](TodaysMinutes # {} =>
             /\ today_stats(stats).longest_focus = SetMax(TodaysMinutes)
             /\ today_stats(stats).longest_focus <= today_stats(stats).work_minutes)

\* a shorter session recorded after a longer one, and a break
C17_Witness ==
    /\ Len(focus_log) >= 2
    /\ focus_log[1][1] = today
    /\ focus_log[2][1] = today
    /\ focus_log[1][2] > focus_log[2][2]
    /\ today_stats(stats).breaks_taken = 1
    /\ today_stats(stats).work_sessions = 2

RECURSIVE breaks_in(_, _)
breaks_in(st, days) ==
    IF days = {} THEN 0
    ELSE LET d == CHOOSE x \in days : TRUE
         IN  st[d].breaks_taken + breaks_in(st, days \ {d})

\* C16: in a command's loop the work sessions recorded so far are as many
\* as completed_sessions, each of work_minutes minutes, and the breaks
\* recorded as many as the advances from a break to work.
C16_RecordPerAdvance ==
    driver_pc # "new" =>
        /\ Len(focus_log) = completed_sessions
        /\ \A i \in 1..Len(focus_log) : focus_log[i][2] = work_minutes
        /\ breaks_in(stats, DOMAIN stats) =
               Cardinality({i \in 1..Len(phase_log) : phase_log[i] = "work"})

\* the SessionManager calls applied to the session id, in order
OpsOn(id) ==
    SelectSeq(session_log, LAMBDA e : e[2] = id)

\* C19: every stored session is 'paused' if the last of start, pause and
\* resume applied to it was pause and 'active' otherwise; a call rewrites
\* only the record of its own session; start and resume make their session
\* the current one.
C19_SessionStatus ==
    /\ [](\A id \in SessionIds :
             /\ id \in DOMAIN session_files <=> OpsOn(id) # <<>>
             /\ id \in DOMAIN session_files =>
                    session_files[id].status =
                        IF OpsOn(id)[Len(OpsOn(id))][1] = "pause"
                        THEN "paused" ELSE "active")
    /\ [][IF session_log' = session_log
          THEN UNCHANGED manager_vars
          ELSE LET e == session_log'[Len(session_log')]
               IN  /\ \A k \in DOMAIN session_files \ {e[2]} :
                          /\ k \in DOMAIN session_files'
                          /\ session_files'[k] = session_files[k]
                   /\ e[1] \in {"start", "resume"} => current_session' = e[2]
                   /\ e[1] = "pause" => current_session' = current_session]_vars

\* a paused session that is still the current one, next to an active one
C19_Witness ==
    \E a, b \in DOMAIN session_files :
        /\ a # b
        /\ session_files[a].status = "paused"
        /\ session_files[b].status = "active"
        /\ current_session = a
        /\ session_files[a].name # session_files[b].name

\* C20: a new matrix that loads the file save wrote has the ids tasks had
\* at the save, each with the same title, urgency, importance and
\* completed, and lists each in the quadrant of its flags.
C20_SaveLoadRoundTrip ==
    [][(load_new_matrix /\ matrix_file # NoFile) =>
          /\ DOMAIN new_tasks' = DOMAIN tasks_at_save
          /\ \A tid \in DOMAIN tasks_at_save :
                 /\ new_tasks'[tid].id = tid
                 /\ new_tasks'[tid].title = tasks_at_save[tid].title
                 /\ new_tasks'[tid].is_urgent = tasks_at_save[tid].is_urgent
                 /\ new_tasks'[tid].is_important =
                        tasks_at_save[tid].is_important
                 /\ new_tasks'[tid].completed = tasks_at_save[tid].completed
                 /\ \E i \in 1..Len(new_quadrants'[get_quadrant(new_tasks'[tid])]) :
                        new_quadrants'[get_quadrant(new_tasks'[tid])][i] = tid]_vars

\* two tasks loaded, one completed, in different quadrants
C20_Witness ==
    /\ DOMAIN new_tasks = TaskIds
    /\ new_tasks["1"].completed
    /\ ~new_tasks["2"].completed
    /\ new_tasks["1"].title # new_tasks["2"].title
    /\ get_quadrant(new_tasks["1"]) # get_quadrant(new_tasks["2"])
    /\ tasks = tasks_at_save

\* the minutes configured for the phase p
ConfiguredMinutes(p) ==
    CASE p = "work" -> work_minutes
      [] p = "short_break" -> short_break_minutes
      [] p = "long_break" -> long_break_minutes

\* C21: total_time is always the configured length of current_phase, in
\* seconds, and only next_phase changes it.
C21_TotalTimeOfPhase ==
    /\ [](total_time = ConfiguredMinutes(current_phase) * SecondsPerMinute)
    /\ [][total_time' # total_time => next_phase]_vars

\* back in a work phase after a long break, stopped and started again
C21_Witness ==
    /\ current_phase = "work"
    /\ Len(phase_log) > 1
    /\ phase_log[Len(phase_log) - 1] = "long_break"
    /\ total_time = work_minutes * SecondsPerMinute
    /\ total_time # long_break_minutes * SecondsPerMinute
    /\ start_time # None
    /\ start_time > 0

\* C22: a set paused_time implies is_paused.
C22_PausedTimeOnlyWhilePaused == paused_time # None => is_paused

\* C23: should_take_break, get_break_suggestion, trigger_reminder and the
\* query methods leave every field of the session as it was: no phase
\* change, no counter, flag, timestamp or offset written.
C23_AdvisorLeavesSession ==
    [][(\/ call_should_take_break
        \/ call_get_break_suggestion
        \/ trigger_reminder
        \/ read_progress) =>
           UNCHANGED <<config, session, phase_log>>]_vars

\* a break found overdue and a reminder shown, the work phase still running
C23_Witness ==
    /\ break_due = <<TRUE>>
    /\ reminder_minutes # <<>>
    /\ reminder_minutes[1] >= 60
    /\ session_count = completed_sessions
    /\ current_phase = "work"
    /\ is_running
    /\ get_elapsed_seconds(now) > IdleThreshold

\* C24: with the session unpaused, get_elapsed_seconds() is the whole
\* seconds of (now - start_time) less the pauses of the phase, never below
\* 0, and 0 on a session never started.
C24_ElapsedFormula ==
    ~is_paused =>
        get_elapsed_seconds(now) =
            IF start_time = None THEN 0
            ELSE Max(0, ((now - start_time) - pause_offset) \div TicksPerSecond)

\* C25: at every instant get_elapsed_seconds() >= 0,
\* 0 <= get_remaining_seconds() <= total_time and
\* 0 <= get_progress_percentage() <= 100, the percentage being 0 when
\* total_time is 0.
C25_RangeBounds ==
    /\ get_elapsed_seconds(now) >= 0
    /\ get_remaining_seconds(now) >= 0
    /\ get_remaining_seconds(now) <= total_time
    /\ FracLeq(<<0, 1>>, get_progress_percentage(now))
    /\ FracLeq(get_progress_percentage(now), <<100, 1>>)
    /\ total_time = 0 => get_progress_percentage(now) = <<0, 1>>

\* a phase run past its length after a pause: the percentage capped at 100
C25_Witness ==
    /\ total_time > 0
    /\ pause_offset > 0
    /\ get_elapsed_seconds(now) > total_time
    /\ get_progress_percentage(now) = <<100, 1>>
    /\ get_remaining_seconds(now) = 0

\* C28: is_paused implies paused_time is set; paused_time is then the
\* instant of the effective pause() that began the pause, and a resume()
\* issued while paused takes effect and measures the pause from it.
C28_PausedHasInstant ==
    /\ [](is_paused => paused_time # None)
    /\ [][/\ (is_paused' /\ (~is_paused \/ paused_time' # paused_time)) =>
                (pause /\ is_running /\ ~is_paused /\ paused_time' = now)
          /\ (resume /\ is_paused) =>
                /\ ~is_paused'
                /\ paused_time' = None
                /\ pause_offset' = pause_offset + (now - paused_time)]_vars

\* paused for the second time in a phase, some time after its start
C28_Witness ==
    /\ is_paused
    /\ is_running
    /\ pause_offset > 0
    /\ paused_time # None
    /\ paused_time > start_time
    /\ now > paused_time

\* C29: in a long break completed_sessions is a positive multiple of
\* sessions_until_long_break, in a short break it is not a multiple, and
\* the phase entered after a break is always work.
C29_PhaseCounter ==
    /\ [](/\ current_phase = "long_break" =>
                /\ completed_sessions > 0
                /\ completed_sessions % sessions_until_long_break = 0
          /\ current_phase = "short_break" =>
                completed_sessions % sessions_until_long_break # 0
          /\ \A i \in 1..Len(phase_log) - 1 :
                phase_log[i] \in BreakPhases => phase_log[i + 1] = "work")
    /\ [][(current_phase \in BreakPhases /\ current_phase' # current_phase) =>
              current_phase' = "work"]_vars

\* a short break after the first long break of the session
C29_Witness ==
    /\ current_phase = "short_break"
    /\ sessions_until_long_break > 1
    /\ completed_sessions > sessions_until_long_break
    /\ \E i \in 1..Len(phase_log) : phase_log[i] = "long_break"

\* the suggestions of the long category, as get_break_suggestion words them
LongSuggestions ==
    {"(" \o title("long") \o " Break) " \o suggestions["long"][r] :
        r \in 1..Len(suggestions["long"])}

\* C26: in a command's loop the suggestion shown for a break is the one for
\* completed_sessions as it stands in that break: a long break has a
\* suggestion of the long category, a short break never has.
C26_SuggestionForCount ==
    (driver_pc # "new" /\ current_phase \in BreakPhases) =>
        /\ session_count = completed_sessions
        /\ current_phase = "long_break" <=> suggestion \in LongSuggestions

\* how many times the id tid stands in the quadrant lists
Listed(tid) ==
    SumLen([q \in Quadrants |->
                SelectSeq(quadrants[q], LAMBDA x : x = tid)], Quadrants)

\* C30: every id in tasks stands exactly once in the four quadrant lists,
\* in the quadrant of the task's is_urgent and is_important flags.
C30_QuadrantConsistency ==
    \A tid \in DOMAIN tasks :
        /\ Listed(tid) = 1
        /\ \E i \in 1..Len(quadrants[get_quadrant(tasks[tid])]) :
               quadrants[get_quadrant(tasks[tid])][i] = tid

\* the modelled clock still reaches an instant at which the current phase is
\* complete
ClockCovers ==
    \E j \in 0..(MaxMinutes - MinutePart(now)) :
        is_phase_complete(now + j * TicksPerMinute)

PhaseInProgress(k) ==
    /\ Len(phase_log) = k
    /\ driver_pc \in {"keys", "check", "sleep"}
    /\ is_running
    /\ ~is_paused
    /\ ClockCovers

\* C27: while the loop keeps polling and the clock keeps advancing, a phase
\* of a running session that is not paused is advanced by the loop, unless
\* the session is paused or stopped first; and every advance goes from Work
\* to a break or from a break to Work.
C27_DriverLiveness ==
    /\ \A k \in 0..(MaxAdvances - 1) :
           PhaseInProgress(k)
               ~> (Len(phase_log) > k \/ is_paused \/ ~is_running)
    /\ [][Len(phase_log') > Len(phase_log)
              => (current_phase = "work") # (current_phase' = "work")]_vars

\* two phases of one minute each were advanced at the end of their time,
\* without a pause
C27_Witness ==
    /\ work_minutes = 1
    /\ phase_log = <<"short_break", "work">>
    /\ start_time = 2 * TicksPerMinute
    /\ now = start_time
    /\ paused_time = None
    /\ driver_pc = "sleep"

====
